---- MODULE Spec2Model ----
(***************************************************************************)
(* Model of ws_dashboard (src/main.py): the DWD image cache with its       *)
(* per-key asyncio locks, the YAML configuration store with its backup,    *)
(* the spot CRUD/reorder API and the view composer.                        *)
(*                                                                         *)
(* Time is counted in hours: _is_fresh compares an age in seconds with     *)
(* max_age_hours * 3600, so one unit of `now` stands for 3600 seconds.     *)
(***************************************************************************)
EXTENDS Integers, Sequences, FiniteSets, TLC

\* ------------------------------------------------------------------ bounds
\* Number of image requests of one run (each request slot is used once).
NumRequests == 2
\* The clock runs from 0 to MaxTime hours.
MaxTime == 3
\* The spot API is driven up to MaxSpots spots in the configuration.
MaxSpots == 2
\* Number of clients whose spot API requests are in flight together.
NumClients == 2

\* ------------------------------------------------------- program constants
\* max_age_hours=2 at both _is_fresh calls of dwd_image.
MaxAgeHours == 2

\* Keys of DWD_IMAGES. The seven keys of the source differ only in their URL;
\* two of them are kept.
DWD_IMAGES == {"main", "v36"}
\* A name that is no key of DWD_IMAGES.
UnknownImage == "nope"
ImageNames == DWD_IMAGES \cup {UnknownImage}

Reqs == 1..NumRequests

VARIABLES
    now,        \* wall clock, in hours
    cache,      \* CACHE_DIR: key -> the file <key>.png
    dwd_locks,  \* _dwd_locks: key -> asyncio.Lock (locked flag, FIFO waiters)
    fetches,    \* key -> number of client.get(url) calls made so far
    req,        \* request slot -> position and result of a dwd_image call
    configFile, \* content of config.yaml
    bakFile,    \* content of config.yaml.bak
    resp,       \* the config/view request being served and its response
    inbox,      \* client -> its spot API request, parsed and waiting for its handler
    applied     \* the successful spot API handlers so far: what each read and wrote

cacheVars == <<now, cache, dwd_locks, fetches, req>>
configVars == <<configFile, bakFile, resp>>
concVars == <<inbox, applied>>
vars == <<now, cache, dwd_locks, fetches, req, configFile, bakFile, resp,
          inbox, applied>>

\* ------------------------------------------------------------ image cache
NoFile == [exists |-> FALSE, version |-> 0, mtime |-> 0]

IdleReq == [pc |-> "idle", name |-> "", status |-> 0, served |-> 0,
            stale |-> FALSE, seq |-> FALSE, t0 |-> 0, tl |-> 0, td |-> 0,
            fetched |-> FALSE, failed |-> FALSE, snap |-> NoFile]

\* Mutant of _is_fresh: the age test is dropped, an existing file is always fresh.
_is_fresh_no_age(f, t) == f.exists

\* _is_fresh(path, max_age_hours=2): the file exists and its age is below the limit.
_is_fresh(f, t) == f.exists /\ (t - f.mtime) < MaxAgeHours

\* Mutant of StaleUnderLock: the re-check under the lock is left out.
StaleUnderLock_no_recheck(f, t) == TRUE

\* `if not _is_fresh(out, max_age_hours=2)` evaluated after the lock is acquired.
StaleUnderLock(f, t) == ~_is_fresh(f, t)

\* Mutant of _fetch_and_cache: the body is written before raise_for_status().
_fetch_and_cache_write_first(f, ok, content, t) ==
    [exists |-> TRUE, version |-> content, mtime |-> t]

\* _fetch_and_cache after `await client.get(url)` has returned: raise_for_status
\* raises on a non-success status (and a timeout raises from get itself) before
\* anything is written; otherwise the body goes to <key>.tmp, which replaces dst.
_fetch_and_cache(f, ok, content, t) ==
    IF ok THEN [exists |-> TRUE, version |-> content, mtime |-> t] ELSE f

\* asyncio.Lock.acquire returns at once iff the lock is free and nobody waits.
LockFree(l) == ~l.locked /\ l.waiters = <<>>

\* No other dwd_image call for `name` is between its arrival and its return.
NoneInFlight(name) ==
    \A q \in Reqs : req[q].name = name => req[q].pc \in {"idle", "done"}

\* Request slots are taken in index order.
NextSlot(r) == req[r].pc = "idle" /\ \A q \in Reqs : q < r => req[q].pc # "idle"

\* dwd_image from its call to its first suspension point.
Request(r, name) ==
    /\ NextSlot(r)
    /\ LET arrived == [IdleReq EXCEPT !.name = name, !.t0 = now, !.tl = now,
                                      !.td = now, !.seq = NoneInFlight(name)]
       IN
       IF name \notin DWD_IMAGES
       THEN /\ req' = [req EXCEPT ![r] =
                          [arrived EXCEPT !.pc = "done", !.status = 404]]
            /\ UNCHANGED <<cache, dwd_locks, fetches>>
       ELSE IF _is_fresh(cache[name], now)
       THEN /\ req' = [req EXCEPT ![r] =
                          [arrived EXCEPT !.pc = "done", !.status = 200,
                                          !.served = cache[name].version]]
            /\ UNCHANGED <<cache, dwd_locks, fetches>>
       ELSE IF LockFree(dwd_locks[name]) /\ StaleUnderLock(cache[name], now)
       THEN /\ req' = [req EXCEPT ![r] =
                          [arrived EXCEPT !.pc = "fetching", !.stale = TRUE,
                                          !.fetched = TRUE,
                                          !.snap = cache[name]]]
            /\ dwd_locks' = [dwd_locks EXCEPT ![name].locked = TRUE]
            /\ fetches' = [fetches EXCEPT ![name] = @ + 1]
            /\ UNCHANGED cache
       ELSE IF LockFree(dwd_locks[name])
       THEN /\ req' = [req EXCEPT ![r] =
                          [arrived EXCEPT !.pc = "done", !.status = 200,
                                          !.stale = TRUE,
                                          !.served = cache[name].version]]
            /\ UNCHANGED <<cache, dwd_locks, fetches>>
       ELSE /\ req' = [req EXCEPT ![r] =
                          [arrived EXCEPT !.pc = "wait_lock", !.stale = TRUE]]
            /\ dwd_locks' = [dwd_locks EXCEPT ![name].waiters = Append(@, r)]
            /\ UNCHANGED <<cache, fetches>>
    /\ UNCHANGED <<now, configVars, concVars>>

\* The first waiter gets the released lock and re-checks freshness under it.
Acquire(r) ==
    /\ req[r].pc = "wait_lock"
    /\ LET name == req[r].name
           l == dwd_locks[name]
       IN
       /\ ~l.locked
       /\ l.waiters # <<>>
       /\ Head(l.waiters) = r
       /\ IF StaleUnderLock(cache[name], now)
          THEN /\ req' = [req EXCEPT ![r].pc = "fetching", ![r].tl = now,
                                     ![r].fetched = TRUE,
                                     ![r].snap = cache[name]]
               /\ dwd_locks' = [dwd_locks EXCEPT ![name] =
                                   [locked |-> TRUE, waiters |-> Tail(l.waiters)]]
               /\ fetches' = [fetches EXCEPT ![name] = @ + 1]
          ELSE /\ req' = [req EXCEPT ![r].pc = "done", ![r].tl = now,
                                     ![r].td = now, ![r].status = 200,
                                     ![r].served = cache[name].version]
               /\ dwd_locks' = [dwd_locks EXCEPT ![name].waiters = Tail(l.waiters)]
               /\ UNCHANGED fetches
    /\ UNCHANGED <<now, cache, configVars, concVars>>

\* client.get(url) returns; ok is FALSE for a timeout or a non-success status.
FetchReturns(r, ok) ==
    /\ req[r].pc = "fetching"
    /\ LET name == req[r].name IN
       cache' = [cache EXCEPT ![name] =
                    _fetch_and_cache(cache[name], ok, fetches[name], now)]
    /\ req' = [req EXCEPT ![r].pc = "closing", ![r].failed = ~ok]
    /\ UNCHANGED <<now, dwd_locks, fetches, configVars, concVars>>

\* The client is closed, the lock released, and dwd_image returns the
\* FileResponse or the exception propagates (an unhandled exception: 500).
Finish(r) ==
    /\ req[r].pc = "closing"
    /\ LET name == req[r].name IN
       /\ dwd_locks' = [dwd_locks EXCEPT ![name].locked = FALSE]
       /\ req' = [req EXCEPT ![r].pc = "done", ![r].td = now,
                             ![r].status = IF req[r].failed THEN 500 ELSE 200,
                             ![r].served = IF req[r].failed THEN 0
                                           ELSE cache[name].version]
    /\ UNCHANGED <<now, cache, fetches, configVars, concVars>>

\* An hour passes (while a request is still to come or to return).
Tick ==
    /\ now < MaxTime
    /\ \E r \in Reqs : req[r].pc # "done"
    /\ now' = now + 1
    /\ UNCHANGED <<cache, dwd_locks, fetches, req, configVars, concVars>>

\* ---------------------------------------------------- configuration store
\* Spot names. "overview" is the name generate_views_from_spots gives the view
\* of all spots; nothing keeps a spot from having it.
Names == {"a", "b", "overview"}

\* A spot's mapping in config.yaml. lat and lon are "none" when the key is
\* missing; windfinder is "absent" (no key), "null" (key with a null value),
\* "nosrc" (a mapping whose widget_src is missing or empty) or "src".
Spot(provider, lat, lon, windfinder) ==
    [provider |-> provider, lat |-> lat, lon |-> lon, windfinder |-> windfinder]

WindySpot == Spot("windy", "47.5", "9.5", "null")
NullWidgetSpot == Spot("windfinder", "47.5", "9.5", "null")
OtherSpot == Spot("other", "47.5", "9.5", "null")

\* SpotConfig(...).dict(): lat and lon are required floats, provider is any
\* string (default "windy"), windfinder is None unless given.
ApiSpots == {WindySpot, NullWidgetSpot}

\* Spots only a hand-edited file holds: keys left out, or a widget reference.
NoLatSpot == Spot("windy", "none", "9.5", "absent")
NoWidgetSpot == Spot("windfinder", "47.5", "9.5", "absent")
WidgetSpot == Spot("windfinder", "47.5", "9.5", "src")
\* A spot key with an empty mapping as its value.
EmptySpot == Spot("absent", "none", "none", "absent")
\* No spot given (SpotUpdate.config = None).
NoSpot == Spot("", "", "", "")

Item(k, v) == [k |-> k, v |-> v]

\* config.yaml: rotation is "absent", "off" (the default section) or "on";
\* spotsKey is "absent", "null" or "map"; spots are the entries in file order.
ConfigFile(rotation, spotsKey, spots) ==
    [exists |-> TRUE, rotation |-> rotation, spotsKey |-> spotsKey, spots |-> spots]

NoBackup == [exists |-> FALSE, rotation |-> "absent", spotsKey |-> "absent",
             spots |-> <<>>]

\* Files as the operator's editor may leave them: spots with keys missing, no
\* rotation section, no spots key, an empty `spots:`, a key written twice.
StartFile == ConfigFile("on", "map", <<Item("a", WindySpot), Item("b", NoLatSpot)>>)

EditedFiles ==
    { StartFile,
      ConfigFile("absent", "map", <<Item("b", NoLatSpot)>>),
      ConfigFile("absent", "absent", <<>>),
      ConfigFile("on", "null", <<>>),
      ConfigFile("on", "map", <<Item("a", WindySpot), Item("a", NoLatSpot)>>) }

\* Hand-written files with every kind of spot the view composer tells apart.
ViewFiles ==
    { StartFile,
      ConfigFile("on", "map", <<Item("b", NoWidgetSpot), Item("a", WidgetSpot)>>),
      ConfigFile("on", "map", <<Item("a", EmptySpot), Item("b", OtherSpot)>>),
      ConfigFile("on", "null", <<>>) }

Keys(items) == {items[i].k : i \in DOMAIN items}

HasKey(items, k) == \E i \in DOMAIN items : items[i].k = k

Value(items, k) == items[CHOOSE i \in DOMAIN items : items[i].k = k].v

KeyList(items) == [i \in DOMAIN items |-> items[i].k]

\* d[k] = v on an insertion-ordered mapping: a present key keeps its place.
DictSet(items, k, v) ==
    IF HasKey(items, k)
    THEN [i \in DOMAIN items |-> IF items[i].k = k THEN Item(k, v) ELSE items[i]]
    ELSE Append(items, Item(k, v))

\* del d[k] / d.pop(k).
DictDel(items, k) ==
    LET keep(it) == it.k # k IN SelectSeq(items, keep)

HasDuplicateKeys(items) ==
    \E i, j \in DOMAIN items : i # j /\ items[i].k = items[j].k

\* load_config: yaml_handler.load raises on a key written twice; setdefault
\* fills a missing rotation section and a missing spots key (a null one stays).
load_config(file) ==
    [ok |-> ~HasDuplicateKeys(file.spots),
     rotation |-> IF file.rotation = "absent" THEN "off" ELSE file.rotation,
     spotsKind |-> IF file.spotsKey = "absent" THEN "map" ELSE file.spotsKey,
     spots |-> file.spots]

\* yaml_handler.dump(cfg, f): the mapping as it is in memory, in its order.
Dump(cfg) == ConfigFile(cfg.rotation, cfg.spotsKind, cfg.spots)

\* Mutant of save_config: the backup is taken after the new content is written.
save_config_backup_after(file, bak, cfg) == [file |-> Dump(cfg), bak |-> Dump(cfg)]

\* save_config: copy config.yaml over config.yaml.bak, then write cfg.
save_config(file, bak, cfg) == [file |-> Dump(cfg), bak |-> file]

Outcome(file, bak, status) == [file |-> file, bak |-> bak, status |-> status]

Saved(w) == Outcome(w.file, w.bak, 200)

\* cfg["spots"] can be used as a mapping (load_config raised otherwise, or the
\* first use of a null `spots` raises; either way the handler answers 500).
Usable(cfg) == cfg.ok /\ cfg.spotsKind = "map"

\* Mutant of add_spot: the existence check is left out.
add_spot_unchecked(file, bak, spot_name, spot_config) ==
    LET cfg == load_config(file) IN
    IF ~Usable(cfg) THEN Outcome(file, bak, 500)
    ELSE Saved(save_config(file, bak,
                 [cfg EXCEPT !.spots = DictSet(@, spot_name, spot_config)]))

\* POST /api/config/spots/{spot_name}
add_spot(file, bak, spot_name, spot_config) ==
    LET cfg == load_config(file) IN
    IF ~Usable(cfg) THEN Outcome(file, bak, 500)
    ELSE IF HasKey(cfg.spots, spot_name) THEN Outcome(file, bak, 400)
    ELSE Saved(save_config(file, bak,
                 [cfg EXCEPT !.spots = DictSet(@, spot_name, spot_config)]))

\* PUT /api/config/spots/{spot_name}; name is "" when update.name is None or
\* empty, config is NoSpot when update.config is None.
update_spot(file, bak, spot_name, name, config) ==
    LET cfg == load_config(file) IN
    IF ~Usable(cfg) THEN Outcome(file, bak, 500)
    ELSE IF ~HasKey(cfg.spots, spot_name) THEN Outcome(file, bak, 404)
    ELSE LET renaming == name # "" /\ name # spot_name IN
         IF renaming /\ HasKey(cfg.spots, name) THEN Outcome(file, bak, 400)
         ELSE LET moved == IF renaming
                           THEN DictSet(DictDel(cfg.spots, spot_name), name,
                                        Value(cfg.spots, spot_name))
                           ELSE cfg.spots
                  target == IF renaming THEN name ELSE spot_name
                  updated == IF config # NoSpot
                             THEN DictSet(moved, target, config)
                             ELSE moved
              IN Saved(save_config(file, bak, [cfg EXCEPT !.spots = updated]))

\* DELETE /api/config/spots/{spot_name}
delete_spot(file, bak, spot_name) ==
    LET cfg == load_config(file) IN
    IF ~Usable(cfg) THEN Outcome(file, bak, 500)
    ELSE IF ~HasKey(cfg.spots, spot_name) THEN Outcome(file, bak, 404)
    ELSE Saved(save_config(file, bak,
                 [cfg EXCEPT !.spots = DictDel(@, spot_name)]))

Range(seq) == {seq[i] : i \in DOMAIN seq}

\* new_spots = {}; for spot_name in spot_order: new_spots[spot_name] = ...
RECURSIVE NewSpots(_, _)
NewSpots(spot_order, current_spots) ==
    IF spot_order = <<>> THEN <<>>
    ELSE LET n == Len(spot_order)
         IN DictSet(NewSpots(SubSeq(spot_order, 1, n - 1), current_spots),
                    spot_order[n], Value(current_spots, spot_order[n]))

\* PUT /api/config/spots/reorder
reorder_spots(file, bak, spot_order) ==
    LET cfg == load_config(file) IN
    IF ~Usable(cfg) THEN Outcome(file, bak, 500)
    ELSE IF Range(spot_order) # Keys(cfg.spots) THEN Outcome(file, bak, 400)
    ELSE Saved(save_config(file, bak,
                 [cfg EXCEPT !.spots = NewSpots(spot_order, @)]))

\* ------------------------------------------------------------ view composer
View(name, show_dwd, spots) == [name |-> name, show_dwd |-> show_dwd, spots |-> spots]

\* generate_views_from_spots: the overview of all spots (when there is any),
\* then one view per spot.
generate_views_from_spots(cfg) ==
    (IF cfg.spots # <<>>
     THEN <<View("overview", TRUE, KeyList(cfg.spots))>>
     ELSE <<>>)
    \o [i \in 1..Len(cfg.spots) |-> View(cfg.spots[i].k, FALSE, <<cfg.spots[i].k>>)]

Card(spot, note, iframe, link) ==
    [spot |-> spot, note |-> note, iframe |-> iframe, view_link |-> link]

\* spec.get("provider", "windy").lower()
Provider(spec) == IF spec.provider = "absent" THEN "windy" ELSE spec.provider

\* The loop body of view_page raises: spec.get("windfinder", {}) is None when the
\* key is there with a null value, and None has no .get.
CardRaises(spec) ==
    /\ spec # EmptySpot
    /\ Provider(spec) = "windfinder"
    /\ spec.windfinder = "null"

\* The cards one pass of view_page's loop appends for a spot (n spots in the view).
SpotCard(spot_name, spec, show_dwd, n) ==
    IF spec = EmptySpot
    THEN <<Card(spot_name, "missing in config", "none", FALSE)>>
    ELSE IF Provider(spec) = "windy"
    THEN IF spec.lat = "none" \/ spec.lon = "none"
         THEN <<Card(spot_name, "missing lat/lon", "none", FALSE)>>
         ELSE <<Card(spot_name, "", IF show_dwd THEN "forecast" ELSE "map",
                     show_dwd /\ n > 1)>>
    ELSE IF Provider(spec) = "windfinder"
    THEN IF spec.windfinder = "src"
         THEN <<Card(spot_name, "", "windfinder", show_dwd /\ n > 1)>>
         ELSE <<Card(spot_name, "missing windfinder.widget_src", "none", FALSE)>>
    ELSE <<Card(spot_name, "unknown provider", "none", FALSE)>>

\* cfg["spots"].get(spot_name)
SpecOf(cfg, spot_name) ==
    IF HasKey(cfg.spots, spot_name) THEN Value(cfg.spots, spot_name) ELSE EmptySpot

RECURSIVE SpotCards(_, _, _, _)
SpotCards(cfg, members, show_dwd, n) ==
    IF members = <<>> THEN <<>>
    ELSE SpotCard(Head(members), SpecOf(cfg, Head(members)), show_dwd, n)
         \o SpotCards(cfg, Tail(members), show_dwd, n)

Page(status, show_dwd, cards) ==
    [status |-> status, show_dwd |-> show_dwd, cards |-> cards]

\* GET /view/{view_name}: 500 when load_config or the loop raises, 404 for a
\* name that is no view, else the cards of the first view of that name.
view_page(file, view_name) ==
    LET cfg == load_config(file) IN
    IF ~Usable(cfg) THEN Page(500, FALSE, <<>>)
    ELSE LET views == generate_views_from_spots(cfg) IN
         IF \A i \in DOMAIN views : views[i].name # view_name
         THEN Page(404, FALSE, <<>>)
         ELSE LET view == views[CHOOSE i \in DOMAIN views :
                                   /\ views[i].name = view_name
                                   /\ \A j \in 1..(i - 1) : views[j].name # view_name]
              IN IF \E i \in DOMAIN view.spots : CardRaises(SpecOf(cfg, view.spots[i]))
                 THEN Page(500, FALSE, <<>>)
                 ELSE Page(200, view.show_dwd,
                           SpotCards(cfg, view.spots, view.show_dwd, Len(view.spots)))

\* ------------------------------------------------- the requests, one by one
Resp(op, name, arg, spec, order, status) ==
    [op |-> op, name |-> name, arg |-> arg, spec |-> spec, order |-> order,
     status |-> status, show_dwd |-> FALSE, cards |-> <<>>]

NoResp == Resp("", "", "", NoSpot, <<>>, 0)

\* Lists of names up to n long, repeats included.
NameLists(n) == UNION {[1..m -> Names] : m \in 0..n}

\* The handler runs from its first line to its return without a suspension
\* point: it is an `async def` with no await in it.
Apply(o, r) ==
    /\ resp = NoResp
    /\ configFile' = o.file
    /\ bakFile' = o.bak
    /\ resp' = r

AddSpot(spot_name, spot_config) ==
    /\ HasKey(configFile.spots, spot_name) \/ Len(configFile.spots) < MaxSpots
    /\ LET o == add_spot(configFile, bakFile, spot_name, spot_config)
       IN Apply(o, Resp("add", spot_name, "", spot_config, <<>>, o.status))
    /\ UNCHANGED <<cacheVars, concVars>>

UpdateSpot(spot_name, name, config) ==
    /\ LET o == update_spot(configFile, bakFile, spot_name, name, config)
       IN Apply(o, Resp("update", spot_name, name, config, <<>>, o.status))
    /\ UNCHANGED <<cacheVars, concVars>>

DeleteSpot(spot_name) ==
    /\ LET o == delete_spot(configFile, bakFile, spot_name)
       IN Apply(o, Resp("delete", spot_name, "", NoSpot, <<>>, o.status))
    /\ UNCHANGED <<cacheVars, concVars>>

ReorderSpots(spot_order) ==
    /\ LET o == reorder_spots(configFile, bakFile, spot_order)
       IN Apply(o, Resp("reorder", "", "", NoSpot, spot_order, o.status))
    /\ UNCHANGED <<cacheVars, concVars>>

ViewPage(view_name) ==
    /\ resp = NoResp
    /\ LET pg == view_page(configFile, view_name)
       IN resp' = [Resp("view", view_name, "", NoSpot, <<>>, pg.status)
                      EXCEPT !.show_dwd = pg.show_dwd, !.cards = pg.cards]
    /\ UNCHANGED <<configFile, bakFile>>
    /\ UNCHANGED <<cacheVars, concVars>>

\* The operator saves config.yaml from an editor.
FileEdit(file) ==
    /\ resp = NoResp
    /\ configFile # file
    /\ configFile' = file
    /\ UNCHANGED <<bakFile, resp>>
    /\ UNCHANGED <<cacheVars, concVars>>

\* The response is sent; the next request can be served.
Respond ==
    /\ resp # NoResp
    /\ resp' = NoResp
    /\ UNCHANGED <<configFile, bakFile>>
    /\ UNCHANGED <<cacheVars, concVars>>

\* --------------------------------------- spot API requests in flight together
Clients == 1..NumClients

\* A parsed request: FastAPI has awaited and validated its body, the handler
\* coroutine has not been called yet. seen is config.yaml as it was then.
ApiRequest(op, name, arg, spec) ==
    [state |-> "queued", op |-> op, name |-> name, arg |-> arg, spec |-> spec,
     status |-> 0, seen |-> NoBackup]

NoRequest == [ApiRequest("", "", "", NoSpot) EXCEPT !.state = "none"]

\* The requests the clients send: creates, deletes, renames.
ApiRequests ==
    {ApiRequest("add", n, "", WindySpot) : n \in Names}
    \cup {ApiRequest("delete", n, "", NoSpot) : n \in Names}
    \cup {ApiRequest("update", n, m, NoSpot) : n \in Names, m \in Names \cup {""}}

Receive(c, request) ==
    /\ inbox[c].state = "none"
    /\ inbox' = [inbox EXCEPT ![c] = [request EXCEPT !.seen = configFile]]
    /\ UNCHANGED <<cacheVars, configVars, applied>>

\* Mutant of ConfigRead: the configuration is the one read when the request
\* came in, as if the handler had been suspended between its load and its save.
ConfigRead_at_arrival(c) == inbox[c].seen

\* cfg = load_config() in a handler: the handlers are `async def` without any
\* await, so the event loop runs each from its load to its save in one piece,
\* and what it loads is config.yaml as it is when the handler is called.
ConfigRead(c) == configFile

HandlerOutcome(q, file, bak) ==
    IF q.op = "add" THEN add_spot(file, bak, q.name, q.spec)
    ELSE IF q.op = "delete" THEN delete_spot(file, bak, q.name)
    ELSE update_spot(file, bak, q.name, q.arg, q.spec)

\* The event loop calls the handler of a waiting request.
Handle(c) ==
    /\ inbox[c].state = "queued"
    /\ LET read == ConfigRead(c)
           o == HandlerOutcome(inbox[c], read, bakFile)
       IN /\ configFile' = o.file
          /\ bakFile' = o.bak
          /\ inbox' = [inbox EXCEPT ![c].state = "done", ![c].status = o.status]
          /\ applied' = IF o.status = 200
                        THEN Append(applied, [client |-> c, read |-> read,
                                              wrote |-> o.file])
                        ELSE applied
    /\ UNCHANGED <<cacheVars, resp>>

\* ------------------------------------------------------- specifications
\* CACHE_DIR.mkdir(exist_ok=True): a key's file is absent or left by an earlier
\* run of the server (version 0, written at hour 0).
InitCache ==
    /\ now = 0
    /\ cache \in [DWD_IMAGES -> {NoFile, [exists |-> TRUE, version |-> 0, mtime |-> 0]}]
    /\ dwd_locks = [k \in DWD_IMAGES |-> [locked |-> FALSE, waiters |-> <<>>]]
    /\ fetches = [k \in DWD_IMAGES |-> 0]
    /\ req = [r \in Reqs |-> IdleReq]

NextCache ==
    \/ \E r \in Reqs, name \in ImageNames : Request(r, name)
    \/ \E r \in Reqs : Acquire(r)
    \/ \E r \in Reqs, ok \in BOOLEAN : FetchReturns(r, ok)
    \/ \E r \in Reqs : Finish(r)
    \/ Tick

\* No spot API request has come in.
ApiAtRest ==
    /\ inbox = [c \in Clients |-> NoRequest]
    /\ applied = <<>>

InitSpecCache ==
    /\ InitCache
    /\ configFile = StartFile
    /\ bakFile = NoBackup
    /\ resp = NoResp
    /\ ApiAtRest

\* The image route alone.
SpecCache == InitSpecCache /\ [][NextCache]_vars

\* No image request has been made.
CacheAtRest ==
    /\ now = 0
    /\ cache = [k \in DWD_IMAGES |-> NoFile]
    /\ dwd_locks = [k \in DWD_IMAGES |-> [locked |-> FALSE, waiters |-> <<>>]]
    /\ fetches = [k \in DWD_IMAGES |-> 0]
    /\ req = [r \in Reqs |-> IdleReq]

\* config.yaml as the operator wrote it; nothing saved yet, so no backup.
InitSpecConfig ==
    /\ CacheAtRest
    /\ ApiAtRest
    /\ configFile \in EditedFiles
    /\ bakFile = NoBackup
    /\ resp = NoResp

NextConfig ==
    \/ \E n \in Names, c \in ApiSpots : AddSpot(n, c)
    \/ \E n \in Names, m \in Names \cup {""}, c \in ApiSpots \cup {NoSpot} :
           UpdateSpot(n, m, c)
    \/ \E n \in Names : DeleteSpot(n)
    \/ \E l \in NameLists(MaxSpots + 1) : ReorderSpots(l)
    \/ \E f \in EditedFiles : FileEdit(f)
    \/ Respond

\* The spot API and the operator's editor, one request at a time.
SpecConfig == InitSpecConfig /\ [][NextConfig]_vars

InitSpecView ==
    /\ CacheAtRest
    /\ ApiAtRest
    /\ configFile \in ViewFiles
    /\ bakFile = NoBackup
    /\ resp = NoResp

NextView ==
    \/ \E n \in Names, c \in ApiSpots : AddSpot(n, c)
    \/ \E n \in Names : DeleteSpot(n)
    \/ \E v \in Names \cup {"nosuchview"} : ViewPage(v)
    \/ \E f \in ViewFiles : FileEdit(f)
    \/ Respond

\* The view route over configurations made by the spot API and by hand.
SpecView == InitSpecView /\ [][NextView]_vars

InitSpecConc ==
    /\ CacheAtRest
    /\ ApiAtRest
    /\ configFile = StartFile
    /\ bakFile = NoBackup
    /\ resp = NoResp

NextConc ==
    \/ \E c \in Clients, q \in ApiRequests : Receive(c, q)
    \/ \E c \in Clients : Handle(c)

\* Spot API requests of several clients, in flight together in the one event
\* loop. Every client sends its request and the loop runs every waiting handler.
SpecConc ==
    /\ InitSpecConc
    /\ [][NextConc]_vars
    /\ \A c \in Clients : WF_vars(\E q \in ApiRequests : Receive(c, q))
    /\ \A c \in Clients : WF_vars(Handle(c))

\* ------------------------------------------------- claims on the image cache
Arrived(k) == {r \in Reqs : req[r].pc # "idle" /\ req[r].name = k}

\* All requests made for key k so far arrived while its copy was stale or absent
\* and, but for the first, while an earlier one was still being handled; all have
\* returned, and each reached its (re-)check of freshness less than the
\* freshness window after the earliest of them arrived.
Burst(k) ==
    /\ Arrived(k) # {}
    /\ \A r \in Arrived(k) : req[r].stale /\ req[r].pc = "done"
    /\ \A r \in Arrived(k) : (\E q \in Arrived(k) : q < r) => ~req[r].seq
    /\ \A r1, r2 \in Arrived(k) : req[r2].tl - req[r1].t0 < MaxAgeHours

SequentialPair(k, r1, r2) ==
    /\ Arrived(k) = {r1, r2}
    /\ r1 < r2
    /\ req[r1].pc = "done" /\ req[r2].pc = "done"
    /\ req[r1].fetched /\ req[r1].snap = NoFile
    /\ req[r2].seq

C3_FailedFetchLeavesCache ==
    [][\A r \in Reqs :
        /\ (req[r].pc = "fetching" /\ req'[r].failed)
               => /\ cache' = cache
                  /\ cache[req[r].name] = req[r].snap
        /\ (req[r].pc = "closing" /\ req[r].failed)
               => /\ cache[req[r].name] = req[r].snap
                  /\ cache'[req[r].name] = req[r].snap
                  /\ (req'[r].pc = "done"
                         => /\ cache' = cache
                            /\ req'[r].status = 500
                            /\ \A q \in Reqs \ {r} : req'[q] = req[q])
        /\ (req'[r].status = 500 /\ req[r].status # 500) => req[r].failed
      ]_vars

\* A request whose fetch failed was answered 500 while the stale copy it found
\* is still in place, unchanged.
C3_Witness ==
    \E r \in Reqs :
        /\ req[r].pc = "done" /\ req[r].failed /\ req[r].status = 500
        /\ req[r].snap.exists
        /\ cache[req[r].name] = req[r].snap

\* C4 as stated: a request whose refresh fetch fails is answered with the
\* previously cached copy when one exists, and with the error only when nothing
\* is cached for the key.
C4_ServesLastKnownGood ==
    [][\A r \in Reqs :
        (req[r].pc = "closing" /\ req[r].failed /\ req'[r].pc = "done")
            => IF cache[req[r].name].exists
               THEN /\ req'[r].status = 200
                    /\ req'[r].served = cache[req[r].name].version
               ELSE req'[r].status = 500
      ]_vars
\* ---------------------------------------------------- claims on the spot API
\* A handler has just run: the step from no request being served to a response.
Served(op) == resp = NoResp /\ resp'.op = op

\* config.yaml can be loaded and holds a mapping of spots (every name once).
WellFormed(file) == ~HasDuplicateKeys(file.spots) /\ file.spotsKey # "null"

\* l lists every name of keys exactly once.
IsPermutation(l, keys) == Len(l) = Cardinality(keys) /\ Range(l) = keys

\* Every spot of `names` is in both files with the same fields.
SameSpots(old, new, names) ==
    \A n \in names :
        HasKey(old.spots, n) /\ HasKey(new.spots, n)
            /\ Value(new.spots, n) = Value(old.spots, n)

NoWrite == configFile' = configFile /\ bakFile' = bakFile

\* C5 as stated: reorder succeeds exactly when the submitted list is a
\* permutation of the current spot names; then the configuration holds the
\* spots in the submitted order with their fields unchanged; otherwise it is
\* rejected with a client error and neither config.yaml nor its backup is written.
C5_ReorderIffPermutation ==
    [][(Served("reorder") /\ WellFormed(configFile)) =>
          IF IsPermutation(resp'.order, Keys(configFile.spots))
          THEN /\ resp'.status = 200
               /\ KeyList(load_config(configFile').spots) = resp'.order
               /\ SameSpots(configFile, configFile', Keys(configFile.spots))
          ELSE /\ resp'.status = 400
               /\ NoWrite
      ]_vars

\* C6: a create, update, rename or delete changes only its target. A successful
\* create adds exactly the new name with the given fields; a successful delete
\* removes exactly the named spot; a successful rename replaces the old key by
\* the new one, with the old fields unless new ones are given; every other spot
\* keeps its name and fields and no name appears twice. A create of an existing
\* name, a rename onto an existing name, an update or delete of a missing name
\* are answered with an error, and every failed call writes nothing.
C6_CrudChangesOnlyTarget ==
    [][/\ Served("add") =>
            LET n == resp'.name
                had == HasKey(configFile.spots, n)
            IN /\ (WellFormed(configFile) /\ had) => resp'.status = 400
               /\ (WellFormed(configFile) /\ ~had) => resp'.status = 200
               /\ IF resp'.status = 200
                  THEN /\ ~had
                       /\ Keys(configFile'.spots) = Keys(configFile.spots) \cup {n}
                       /\ Len(configFile'.spots) = Len(configFile.spots) + 1
                       /\ Value(configFile'.spots, n) = resp'.spec
                       /\ SameSpots(configFile, configFile', Keys(configFile.spots))
                  ELSE NoWrite
       /\ Served("delete") =>
            LET n == resp'.name
                had == HasKey(configFile.spots, n)
            IN /\ (WellFormed(configFile) /\ ~had) => resp'.status = 404
               /\ (WellFormed(configFile) /\ had) => resp'.status = 200
               /\ IF resp'.status = 200
                  THEN /\ had
                       /\ Keys(configFile'.spots) = Keys(configFile.spots) \ {n}
                       /\ Len(configFile'.spots) = Len(configFile.spots) - 1
                       /\ SameSpots(configFile, configFile', Keys(configFile.spots) \ {n})
                  ELSE NoWrite
       /\ Served("update") =>
            LET n == resp'.name
                m == resp'.arg
                had == HasKey(configFile.spots, n)
                renaming == m # "" /\ m # n
                target == IF renaming THEN m ELSE n
            IN /\ (WellFormed(configFile) /\ ~had) => resp'.status = 404
               /\ (WellFormed(configFile) /\ had /\ renaming
                     /\ HasKey(configFile.spots, m)) => resp'.status = 400
               /\ IF resp'.status = 200
                  THEN /\ had
                       /\ renaming => ~HasKey(configFile.spots, m)
                       /\ Keys(configFile'.spots) =
                              (Keys(configFile.spots) \ {n}) \cup {target}
                       /\ Len(configFile'.spots) = Len(configFile.spots)
                       /\ Value(configFile'.spots, target) =
                              IF resp'.spec # NoSpot THEN resp'.spec
                              ELSE Value(configFile.spots, n)
                       /\ SameSpots(configFile, configFile', Keys(configFile.spots) \ {n})
                  ELSE NoWrite
       /\ (resp = NoResp /\ resp' # NoResp /\ resp'.status = 200
              /\ resp'.op # "view") => ~HasDuplicateKeys(configFile'.spots)
      ]_vars

\* A spot was renamed with its fields kept while another spot stayed as it was.
C6_Witness ==
    /\ resp.op = "update" /\ resp.status = 200
    /\ resp.arg # "" /\ resp.arg # resp.name /\ resp.spec = NoSpot
    /\ bakFile.exists
    /\ HasKey(bakFile.spots, resp.name)
    /\ ~HasKey(configFile.spots, resp.name)
    /\ Value(configFile.spots, resp.arg) = Value(bakFile.spots, resp.name)
    /\ Len(configFile.spots) = 2

\* An update that names neither a new name nor new fields: save(load()).
IsPlainResave(r) ==
    r.op = "update" /\ r.status = 200 /\ r.arg \in {"", r.name} /\ r.spec = NoSpot

\* C8: every successful save leaves in config.yaml.bak the content config.yaml
\* had just before that save (whatever the backup held before), and a
\* save(load()) without modification leaves the spots, their order and their
\* fields as they were.
C8_BackupAndRoundTrip ==
    [][(resp = NoResp /\ resp' # NoResp /\ resp'.op # "view"
           /\ resp'.status = 200) =>
          /\ bakFile' = configFile
          /\ bakFile'.exists
          /\ IsPlainResave(resp') => configFile'.spots = configFile.spots
      ]_vars

\* A plain re-save of a file that had spots and no rotation section: the
\* spots are as before, the backup is the file as it was, the file now has the
\* default section.
C8_Witness ==
    /\ IsPlainResave(resp)
    /\ bakFile.exists
    /\ configFile.spots # <<>>
    /\ configFile.spots = bakFile.spots
    /\ bakFile.rotation = "absent"
    /\ configFile.rotation = "off"

\* ------------------------------------------------ claims on the view composer
\* The spot lacks what its provider needs, or its provider is unknown.
Malformed(spec) ==
    \/ spec = EmptySpot
    \/ Provider(spec) \notin {"windy", "windfinder"}
    \/ Provider(spec) = "windy" /\ (spec.lat = "none" \/ spec.lon = "none")
    \/ Provider(spec) = "windfinder" /\ spec.windfinder # "src"

\* C7 as stated: rendering the view of all spots never fails as a whole; it
\* gives one card per spot, in configuration order, a placeholder without
\* widget content for a spot that lacks what its provider needs (a widget
\* reference stored as null included) or has an unknown provider, and a normal
\* card for every other spot.
C7_OneCardPerSpot ==
    [][(Served("view") /\ resp'.name = "overview" /\ WellFormed(configFile)
           /\ configFile.spots # <<>>) =>
          /\ resp'.status = 200
          /\ Len(resp'.cards) = Len(configFile.spots)
          /\ \A i \in DOMAIN configFile.spots :
                /\ i \in DOMAIN resp'.cards
                /\ resp'.cards[i].spot = configFile.spots[i].k
                /\ (resp'.cards[i].iframe = "none") <=> Malformed(configFile.spots[i].v)
      ]_vars

CardSpots(cards) == [i \in DOMAIN cards |-> cards[i].spot]

\* C9 as stated: for every spot name s, the view named s is the per-spot view
\* whose only member is s, with the map variant and no overlay, and the view
\* named overview is the view of all spot names in configuration order, also
\* when a spot is itself named overview.
C9_ViewResolution ==
    [][(Served("view") /\ WellFormed(configFile) /\ resp'.status = 200) =>
          /\ HasKey(configFile.spots, resp'.name) =>
                /\ CardSpots(resp'.cards) = <<resp'.name>>
                /\ ~resp'.show_dwd
                /\ \A i \in DOMAIN resp'.cards : resp'.cards[i].iframe # "forecast"
          /\ resp'.name = "overview" =>
                CardSpots(resp'.cards) = KeyList(configFile.spots)
      ]_vars

\* ------------------------------- claims on concurrent spot API requests
\* Two successive successful handlers read the same configuration although the
\* earlier one changed it: the later save discards the earlier change.
LostUpdate ==
    \E i \in 1..(Len(applied) - 1) :
        /\ applied[i + 1].read = applied[i].read
        /\ applied[i].wrote # applied[i].read

====
